---------------------------- MODULE Spec2Model ----------------------------
(***************************************************************************)
(* Ten Minute Lessons (tml.py): the interactive session of TMLEngine       *)
(* (construction, flow), the completion client, and the two pure text      *)
(* functions paginate_text and extract_section.                            *)
(*                                                                         *)
(* Python strings are modelled as sequences of one-character strings, so   *)
(* that splitting, joining, stripping, formatting and regular-expression   *)
(* matching are computed character by character as the code computes them. *)
(***************************************************************************)
EXTENDS Integers, Sequences, FiniteSets, TLC

VARIABLES
    fn,          \* which pure function is applied: "none", "paginate", "extract"
    fn_text,     \* the text argument of the pure function
    fn_label,    \* the section_name argument of extract_section
    fn_pc,       \* "idle" | "call" | "done"
    fn_out,      \* the value returned
    fn_doc,      \* the curriculum the text was written from (extract_section)
    pc,          \* position of main(): the statement executed next
    key,         \* whether the environment holds OPENAI_KEY
    stdin,       \* the lines still available on standard input
    user_topic,  \* self.user_topic
    self_prompt, \* self.prompt
    learning_plan, \* the curriculum text returned by the completion call
    lesson,      \* loop counter of flow()
    question,    \* loop counter of flow()
    question_text, \* local of flow()
    answer,      \* local of flow()
    response,    \* local of flow()
    trace,       \* what the process has done: reads, completion calls, output
    exit_code    \* -1 while running, then the process's exit status

----------------------------------------------------------------------------
(* Characters and strings *)

SP == " "
NL == "\n"
TAB == "\t"

\* str.isspace() for the characters of the model
IsSpace(c) == c \in {SP, NL, TAB}

\* s[i:j] of Python, 1-based and inclusive here
Slice(s, i, j) == IF j < i THEN <<>> ELSE SubSeq(s, i, j)

\* a string of n copies of c
Rep(c, n) == [k \in 1..n |-> c]

\* sep.join(parts)
RECURSIVE Join(_, _)
Join(parts, sep) ==
    IF parts = <<>> THEN <<>>
    ELSE IF Len(parts) = 1 THEN parts[1]
    ELSE parts[1] \o sep \o Join(Tail(parts), sep)

\* the k-th smallest element of a set of integers, k from 1
Kth(S, k) == CHOOSE x \in S : Cardinality({y \in S : y < x}) = k - 1

\* str.split() with no argument: the maximal runs of non-whitespace
WordStarts(s) ==
    {i \in 1..Len(s) : ~IsSpace(s[i]) /\ (i = 1 \/ IsSpace(s[i - 1]))}
WordEnds(s) ==
    {i \in 1..Len(s) : ~IsSpace(s[i]) /\ (i = Len(s) \/ IsSpace(s[i + 1]))}

Split(s) ==
    [k \in 1..Cardinality(WordStarts(s)) |->
        SubSeq(s, Kth(WordStarts(s), k), Kth(WordEnds(s), k))]

\* str.splitlines(): a line ends at a line break; a text that ends with a
\* line break has no empty last line
LineBreaks(s) == {i \in 1..Len(s) : s[i] = NL}

splitlines(s) ==
    LET brk == LineBreaks(s)
        n == Cardinality(brk)
        last == IF s # << >> /\ s[Len(s)] # NL THEN 1 ELSE 0
        start(k) == IF k = 1 THEN 1 ELSE Kth(brk, k - 1) + 1
        stop(k) == IF k <= n THEN Kth(brk, k) - 1 ELSE Len(s)
    IN  [k \in 1..(n + last) |-> Slice(s, start(k), stop(k))]

\* str.rstrip(), str.lstrip(), str.strip()
rstrip(s) ==
    LET keep == {i \in 1..Len(s) : ~IsSpace(s[i])}
    IN  IF keep = {} THEN << >>
        ELSE SubSeq(s, 1, CHOOSE i \in keep : \A j \in keep : j <= i)

lstrip(s) ==
    LET keep == {i \in 1..Len(s) : ~IsSpace(s[i])}
    IN  IF keep = {} THEN << >>
        ELSE SubSeq(s, CHOOSE i \in keep : \A j \in keep : i <= j, Len(s))

strip(s) == rstrip(lstrip(s))

----------------------------------------------------------------------------
(* TMLEngine.paginate_text *)

width == 80

\* Overflows without the space that joins the word to the line
OverflowsNoSpace(current_line, word) == Len(current_line) + Len(word) > width

\* the condition under which the next word starts a new line
Overflows(current_line, word) == Len(current_line) + 1 + Len(word) > width

\* PackLoop that forgets the full line when it starts a new one
RECURSIVE PackLoopLosing(_, _, _, _)
PackLoopLosing(words, i, current_line, lines) ==
    IF i > Len(words) THEN Append(lines, current_line)
    ELSE IF Overflows(current_line, words[i])
         THEN PackLoopLosing(words, i + 1, words[i], lines)
         ELSE PackLoopLosing(words, i + 1, current_line \o <<SP>> \o words[i], lines)

\* the for loop over words[1:], from the i-th word on
RECURSIVE PackLoop(_, _, _, _)
PackLoop(words, i, current_line, lines) ==
    IF i > Len(words) THEN Append(lines, current_line)
    ELSE IF Overflows(current_line, words[i])
         THEN PackLoop(words, i + 1, words[i], Append(lines, current_line))
         ELSE PackLoop(words, i + 1, current_line \o <<SP>> \o words[i], lines)

paginate_text(text) ==
    LET words == Split(text)
    IN  IF words = << >> THEN << >>
        ELSE Join(PackLoop(words, 2, words[1], << >>), << NL >>)

----------------------------------------------------------------------------
(* TMLEngine.extract_section *)

\* the index of the first character at or after i that is not whitespace
RECURSIVE SkipSpace(_, _)
SkipSpace(line, i) ==
    IF i <= Len(line) /\ IsSpace(line[i]) THEN SkipSpace(line, i + 1) ELSE i

\* \]\s*: matched at position i (the position of the closing bracket)
ClosesAt(line, i) ==
    /\ i <= Len(line)
    /\ line[i] = "]"
    /\ LET j == SkipSpace(line, i + 1)
       IN  j <= Len(line) /\ line[j] = ":"

\* re.match(any_header_regex, line), any_header_regex = ^\[.*?\]\s*:
AnyHeaderMatch(line) ==
    /\ Len(line) >= 1
    /\ line[1] = "["
    /\ \E i \in 2..Len(line) : ClosesAt(line, i)

\* re.escape(section_name) matched literally right after the opening bracket
NameMatches(line, section_name) ==
    /\ Len(line) >= 1 + Len(section_name)
    /\ SubSeq(line, 2, 1 + Len(section_name)) = section_name

\* HeaderMatch that takes the name as a prefix of the bracketed label
HeaderMatchPrefix(line, section_name) ==
    /\ Len(line) >= 1
    /\ line[1] = "["
    /\ NameMatches(line, section_name)
    /\ \E i \in (Len(section_name) + 2)..Len(line) : ClosesAt(line, i)

\* re.match(header_regex, line), header_regex = ^\[<section_name>\]\s*:(.*)$
HeaderMatch(line, section_name) ==
    /\ Len(line) >= 1
    /\ line[1] = "["
    /\ NameMatches(line, section_name)
    /\ ClosesAt(line, Len(section_name) + 2)

\* m.group(1): the rest of the line after the colon
HeaderGroup1(line, section_name) ==
    LET j == SkipSpace(line, Len(section_name) + 3)
    IN  Slice(line, j + 1, Len(line))

\* ExtractLoop that goes on collecting past the next header
RECURSIVE ExtractLoopNoBreak(_, _, _, _, _)
ExtractLoopNoBreak(lines, i, collecting, result, section_name) ==
    IF i > Len(lines) THEN result
    ELSE LET line == lines[i] IN
         IF AnyHeaderMatch(line)
         THEN IF HeaderMatch(line, section_name)
              THEN LET first_line_content == strip(HeaderGroup1(line, section_name))
                   IN  ExtractLoopNoBreak(lines, i + 1, TRUE,
                           IF first_line_content # <<>>
                           THEN Append(result, first_line_content) ELSE result,
                           section_name)
              ELSE ExtractLoopNoBreak(lines, i + 1, collecting, result, section_name)
         ELSE ExtractLoopNoBreak(lines, i + 1, collecting,
                  IF collecting THEN Append(result, line) ELSE result, section_name)

\* the for loop over lines, from the i-th line on
RECURSIVE ExtractLoop(_, _, _, _, _)
ExtractLoop(lines, i, collecting, result, section_name) ==
    IF i > Len(lines) THEN result
    ELSE LET line == lines[i] IN
         IF AnyHeaderMatch(line)
         THEN IF collecting THEN result   \* break
              ELSE IF HeaderMatch(line, section_name)
                   THEN LET first_line_content == strip(HeaderGroup1(line, section_name))
                        IN  ExtractLoop(lines, i + 1, TRUE,
                                IF first_line_content # <<>>
                                THEN Append(result, first_line_content) ELSE result,
                                section_name)
                   ELSE ExtractLoop(lines, i + 1, collecting, result, section_name)
         ELSE ExtractLoop(lines, i + 1, collecting,
                  IF collecting THEN Append(result, line) ELSE result, section_name)

extract_section(full_text, section_name) ==
    LET lines == splitlines(full_text)
    IN  rstrip(Join(ExtractLoop(lines, 1, FALSE, << >>, section_name), << NL >>))

----------------------------------------------------------------------------
(* Module constants and the labels *)

\* the two prompt templates, each held as one item of text
prompt == << "You are 'Ten Minute Lessons' ... [TITLE]:, [GOALS]:, [LESSON#]:, [SUMMARY]: ... [Question#.#] ... please teach about this:\n" >>
qprompt == << "Below is a question and an answer. Please assess the answer ...\n" >>

TITLE == << "T", "I", "T", "L", "E" >>
GOALS == << "G", "O", "A", "L", "S" >>
SUMMARY == << "S", "U", "M", "M", "A", "R", "Y" >>
LESSON == << "L", "E", "S", "S", "O", "N" >>
QUESTION == << "Q", "U", "E", "S", "T", "I", "O", "N" >>
Question == << "Q", "u", "e", "s", "t", "i", "o", "n" >>

\* str(n) of a non-negative integer, as an f-string formats it
DigitChar == << "0", "1", "2", "3", "4", "5", "6", "7", "8", "9" >>
RECURSIVE IntToStr(_)
IntToStr(n) ==
    IF n < 10 THEN << DigitChar[n + 1] >>
    ELSE IntToStr(n \div 10) \o << DigitChar[(n % 10) + 1] >>

\* f"LESSON {lesson}"
LessonName(n) == LESSON \o << SP >> \o IntToStr(n)
\* f"Question {lesson}.{question}"
QuestionName(n, q) == Question \o << SP >> \o IntToStr(n) \o << "." >> \o IntToStr(q)

----------------------------------------------------------------------------
(* The curriculum texts the completion service may return *)

\* a section of a curriculum: what it is and which lesson and question
Sec(what, i, j) == [what |-> what, i |-> i, j |-> j]

\* the twelve sections of a curriculum, in the order the prompt asks for them
Sections ==
    << Sec("title", 0, 0), Sec("goals", 0, 0),
       Sec("lesson", 1, 0), Sec("question", 1, 1), Sec("question", 1, 2),
       Sec("lesson", 2, 0), Sec("question", 2, 1), Sec("question", 2, 2),
       Sec("lesson", 3, 0), Sec("question", 3, 1), Sec("question", 3, 2),
       Sec("summary", 0, 0) >>

\* The label a curriculum gives a section.  "contract": the labels of the
\* prompt template contract (LESSON1, QUESTION1.1); "prompt": the prompt
\* text read literally ([LESSON#], [Question#.#]); "spaced": the names
\* flow() asks for (LESSON 1, Question 1.1).
Styles == {"contract", "prompt", "spaced"}

LabelOf(style, sec) ==
    CASE sec.what = "title" -> TITLE
      [] sec.what = "goals" -> GOALS
      [] sec.what = "summary" -> SUMMARY
      [] sec.what = "lesson" ->
            IF style = "spaced" THEN LessonName(sec.i) ELSE LESSON \o IntToStr(sec.i)
      [] sec.what = "question" ->
            IF style = "spaced" THEN QuestionName(sec.i, sec.j)
            ELSE (IF style = "contract" THEN QUESTION ELSE Question)
                 \o IntToStr(sec.i) \o << "." >> \o IntToStr(sec.j)

\* the labels of the prompt template contract
ContractNames == { LabelOf("contract", Sections[k]) : k \in 1..Len(Sections) }

\* the text the model writes for a section: a first line after the colon ...
Tag(sec) ==
    CASE sec.what = "title" -> << "t" >>
      [] sec.what = "goals" -> << "g" >>
      [] sec.what = "summary" -> << "s" >>
      [] sec.what = "lesson" -> << "l" >> \o IntToStr(sec.i)
      [] sec.what = "question" -> << "q" >> \o IntToStr(sec.i) \o IntToStr(sec.j)

Inline(sec) == Tag(sec) \o << SP, SP, "x" >>
\* ... and for a lesson one more line
Body(sec) == IF sec.what = "lesson" THEN << << "y" >> >> ELSE << >>

\* the lines of one section: header with first line, further lines, a blank line
SectionLines(style, sec) ==
    << << "[" >> \o LabelOf(style, sec) \o << "]", ":", SP >> \o Inline(sec) >>
    \o Body(sec) \o << << >> >>

\* the curriculum in a style, without the section of lesson `missing` (0: none)
RECURSIVE CurriculumLines(_, _, _)
CurriculumLines(style, missing, k) ==
    IF k > Len(Sections) THEN << >>
    ELSE (IF Sections[k].what = "lesson" /\ Sections[k].i = missing
          THEN << >> ELSE SectionLines(style, Sections[k]))
         \o CurriculumLines(style, missing, k + 1)

Curriculum(style, missing) == Join(CurriculumLines(style, missing, 1), << NL >>)

Curricula == { Curriculum(style, missing) : style \in Styles, missing \in 0..3 }

\* what a reader of the curriculum takes to be the content of a section
Authored(sec) == Join(<< Inline(sec) >> \o Body(sec), << NL >>)

----------------------------------------------------------------------------
(* main(): TMLEngine.__init__, TMLEngine.flow, OpenAIClient *)

fnvars == << fn, fn_text, fn_label, fn_pc, fn_out, fn_doc >>
flowvars == << pc, key, stdin, user_topic, self_prompt, learning_plan, lesson,
               question, question_text, answer, response, trace, exit_code >>
vars == << fnvars, flowvars >>

\* most lines standard input may hold
MaxStdin == 8

\* what the user types, and what the grader may answer
\* the k-th line the user types
InputLine(k) == << "i", "n", SP >> \o IntToStr(k)
Verdicts == { << "C", "o", "r", "r", "e", "c", "t", ".", SP, SP, "o", "k" >> }

\* one thing the process did
Ev(op, what, i, j, name, text) ==
    [op |-> op, what |-> what, i |-> i, j |-> j, name |-> name, text |-> text,
     ok |-> TRUE]

\* the same, for a call or a read that raised
Failed(ev) == [ev EXCEPT !.ok = FALSE]

Did(ev) == trace' = Append(trace, ev)

\* Raise with the exception swallowed: the statement is tried again
RaiseAndGoOn ==
    /\ pc' = pc
    /\ exit_code' = exit_code

\* an exception nothing catches: traceback, exit status 1
Raise ==
    /\ pc' = "exited"
    /\ exit_code' = 1

\* QuestionRemains with the bound off by one
QuestionRemainsThree(q) == q <= 3

\* the loop conditions of flow()
LessonRemains(n) == n <= 3
QuestionRemains(q) == q <= 2

\* GradingPrompt that leaves the answer out
GradingPromptNoAnswer(qt, a) == qprompt \o << NL, SP >> \o qt \o << NL >>

\* f"{qprompt}\n {question_text}\n {answer}\n"
GradingPrompt(qt, a) == qprompt \o << NL, SP >> \o qt \o << NL, SP >> \o a \o << NL >>

\* Construct that does not look for the key
ConstructNoCheck ==
    /\ UNCHANGED fnvars
    /\ pc = "start"
    /\ pc' = "ask"
    /\ UNCHANGED << key, stdin, user_topic, self_prompt, learning_plan, lesson,
                    question, question_text, answer, response, trace, exit_code >>

\* OpenAIClient(): _get_openai_key() exits with status 1 when the key is absent
Construct ==
    /\ UNCHANGED fnvars
    /\ pc = "start"
    /\ IF key
       THEN /\ pc' = "ask"
            /\ UNCHANGED << trace, exit_code >>
       ELSE /\ Did(Ev("log", "no_key", 0, 0, << >>, << >>))
            /\ pc' = "exited"
            /\ exit_code' = 1
    /\ UNCHANGED << key, stdin, user_topic, self_prompt, learning_plan, lesson,
                    question, question_text, answer, response >>

\* emit_with_tick(request, 25)
AskTopic ==
    /\ UNCHANGED fnvars
    /\ pc = "ask"
    /\ Did(Ev("emit", "request", 0, 0, << >>, << "What would you like to learn about? " >>))
    /\ pc' = "read_topic"
    /\ UNCHANGED << key, stdin, user_topic, self_prompt, learning_plan, lesson,
                    question, question_text, answer, response, exit_code >>

\* self.user_topic = input(); self.prompt = prompt + self.user_topic
ReadTopic ==
    /\ UNCHANGED fnvars
    /\ pc = "read_topic"
    /\ IF stdin = << >>
       THEN /\ Raise
            /\ Did(Failed(Ev("input", "topic", 0, 0, << >>, << >>)))
            /\ UNCHANGED << stdin, user_topic, self_prompt >>
       ELSE /\ user_topic' = Head(stdin)
            /\ self_prompt' = prompt \o Head(stdin)
            /\ stdin' = Tail(stdin)
            /\ Did(Ev("input", "topic", 0, 0, << >>, Head(stdin)))
            /\ pc' = "fetch"
            /\ UNCHANGED exit_code
    /\ UNCHANGED << key, learning_plan, lesson, question, question_text, answer, response >>

\* learning_plan = self.llm_client.execute_prompt(self.prompt)
Fetch ==
    /\ UNCHANGED fnvars
    /\ pc = "fetch"
    /\ \/ /\ Did(Failed(Ev("call", "curriculum", 0, 0, << >>, self_prompt)))
          /\ Raise
          /\ UNCHANGED learning_plan
       \/ \E plan \in Curricula :
          /\ Did(Ev("call", "curriculum", 0, 0, << >>, self_prompt))
          /\ learning_plan' = plan
          /\ pc' = "print_plan"
          /\ UNCHANGED exit_code
    /\ UNCHANGED << key, stdin, user_topic, self_prompt, lesson, question,
                    question_text, answer, response >>

\* print(learning_plan)
PrintPlan ==
    /\ UNCHANGED fnvars
    /\ pc = "print_plan"
    /\ Did(Ev("print", "plan", 0, 0, << >>, learning_plan))
    /\ pc' = "title"
    /\ UNCHANGED << key, stdin, user_topic, self_prompt, learning_plan, lesson,
                    question, question_text, answer, response, exit_code >>

\* title = self.extract_section(learning_plan, "TITLE"); emit
ShowTitle ==
    /\ UNCHANGED fnvars
    /\ pc = "title"
    /\ Did(Ev("emit", "title", 0, 0, TITLE,
              extract_section(learning_plan, TITLE) \o << NL, NL >>))
    /\ pc' = "goals"
    /\ UNCHANGED << key, stdin, user_topic, self_prompt, learning_plan, lesson,
                    question, question_text, answer, response, exit_code >>

\* print("Goals:"); goals = ...; emit; lesson = 1
ShowGoals ==
    /\ UNCHANGED fnvars
    /\ pc = "goals"
    /\ trace' = trace \o << Ev("print", "goals_header", 0, 0, << >>, << "Goals:" >>),
                            Ev("emit", "goals", 0, 0, GOALS,
                               extract_section(learning_plan, GOALS) \o << NL, NL >>) >>
    /\ lesson' = 1
    /\ pc' = "lesson_loop"
    /\ UNCHANGED << key, stdin, user_topic, self_prompt, learning_plan,
                    question, question_text, answer, response, exit_code >>

\* while (lesson <= 3): lesson_text = ...; print(f"Lesson {lesson}"); emit; question = 1
ShowLesson ==
    /\ UNCHANGED fnvars
    /\ pc = "lesson_loop"
    /\ LessonRemains(lesson)
    /\ LET lesson_text == paginate_text(extract_section(learning_plan, LessonName(lesson)))
       IN  trace' = trace \o
               << Ev("print", "lesson_header", lesson, 0, << >>,
                     << "Lesson " >> \o IntToStr(lesson)),
                  Ev("emit", "lesson", lesson, 0, LessonName(lesson),
                     lesson_text \o << NL, NL >>) >>
    /\ question' = 1
    /\ pc' = "question_loop"
    /\ UNCHANGED << key, stdin, user_topic, self_prompt, learning_plan, lesson,
                    question_text, answer, response, exit_code >>

\* while (question <= 2): question_text = ...; emit
ShowQuestion ==
    /\ UNCHANGED fnvars
    /\ pc = "question_loop"
    /\ QuestionRemains(question)
    /\ question_text' =
           paginate_text(extract_section(learning_plan, QuestionName(lesson, question)))
    /\ Did(Ev("emit", "question", lesson, question, QuestionName(lesson, question),
              question_text' \o << NL, NL >>))
    /\ pc' = "answer"
    /\ UNCHANGED << key, stdin, user_topic, self_prompt, learning_plan, lesson,
                    question, answer, response, exit_code >>

\* answer = input()
ReadAnswer ==
    /\ UNCHANGED fnvars
    /\ pc = "answer"
    /\ IF stdin = << >>
       THEN /\ Raise
            /\ Did(Failed(Ev("input", "answer", lesson, question, << >>, << >>)))
            /\ UNCHANGED << stdin, answer >>
       ELSE /\ answer' = Head(stdin)
            /\ stdin' = Tail(stdin)
            /\ Did(Ev("input", "answer", lesson, question, << >>, Head(stdin)))
            /\ pc' = "grade"
            /\ UNCHANGED exit_code
    /\ UNCHANGED << key, user_topic, self_prompt, learning_plan, lesson, question,
                    question_text, response >>

\* response = self.paginate_text(self.llm_client.execute_prompt(...))
Grade ==
    /\ UNCHANGED fnvars
    /\ pc = "grade"
    /\ \/ /\ Did(Failed(Ev("call", "grading", lesson, question, << >>,
                           GradingPrompt(question_text, answer))))
          /\ Raise
          /\ UNCHANGED response
       \/ \E v \in Verdicts :
          /\ Did(Ev("call", "grading", lesson, question, << >>,
                    GradingPrompt(question_text, answer)))
          /\ response' = paginate_text(v)
          /\ pc' = "verdict"
          /\ UNCHANGED exit_code
    /\ UNCHANGED << key, stdin, user_topic, self_prompt, learning_plan, lesson,
                    question, question_text, answer >>

\* emit("\n" + response + "\n\n"); question = question + 1
ShowVerdict ==
    /\ UNCHANGED fnvars
    /\ pc = "verdict"
    /\ Did(Ev("emit", "verdict", lesson, question, << >>,
              << NL >> \o response \o << NL, NL >>))
    /\ question' = question + 1
    /\ pc' = "question_loop"
    /\ UNCHANGED << key, stdin, user_topic, self_prompt, learning_plan, lesson,
                    question_text, answer, response, exit_code >>

\* the question loop ends: lesson = lesson + 1
NextLesson ==
    /\ UNCHANGED fnvars
    /\ pc = "question_loop"
    /\ ~QuestionRemains(question)
    /\ lesson' = lesson + 1
    /\ pc' = "lesson_loop"
    /\ UNCHANGED << key, stdin, user_topic, self_prompt, learning_plan,
                    question, question_text, answer, response, trace, exit_code >>

\* the lesson loop ends: summary = ...; emit("\n" + summary + "\n\n")
ShowSummary ==
    /\ UNCHANGED fnvars
    /\ pc = "lesson_loop"
    /\ ~LessonRemains(lesson)
    /\ Did(Ev("emit", "summary", 0, 0, SUMMARY,
              << NL >> \o paginate_text(extract_section(learning_plan, SUMMARY))
                       \o << NL, NL >>))
    /\ pc' = "closing"
    /\ UNCHANGED << key, stdin, user_topic, self_prompt, learning_plan, lesson,
                    question, question_text, answer, response, exit_code >>

\* emit("\nThanks for learning with Ten Minute Lessons!\n\n")
Closing ==
    /\ UNCHANGED fnvars
    /\ pc = "closing"
    /\ Did(Ev("emit", "closing", 0, 0, << >>,
              << NL, "Thanks for learning with Ten Minute Lessons!", NL, NL >>))
    /\ pc' = "return"
    /\ UNCHANGED << key, stdin, user_topic, self_prompt, learning_plan, lesson,
                    question, question_text, answer, response, exit_code >>

\* main() returns; sys.exit(0)
Exit ==
    /\ UNCHANGED fnvars
    /\ pc = "return"
    /\ pc' = "exited"
    /\ exit_code' = 0
    /\ UNCHANGED << key, stdin, user_topic, self_prompt, learning_plan, lesson,
                    question, question_text, answer, response, trace >>

FlowIdle ==
    /\ pc = "off"
    /\ key = FALSE
    /\ stdin = << >>
    /\ user_topic = << >>
    /\ self_prompt = << >>
    /\ learning_plan = << >>
    /\ lesson = 0
    /\ question = 0
    /\ question_text = << >>
    /\ answer = << >>
    /\ response = << >>
    /\ trace = << >>
    /\ exit_code = -1

FnIdle ==
    /\ fn = "none"
    /\ fn_text = << >>
    /\ fn_label = << >>
    /\ fn_pc = "idle"
    /\ fn_out = << >>
    /\ fn_doc = [kind |-> "none", lines |-> << >>, sections |-> << >>]

\* the process starts: the environment may or may not hold the key, and
\* standard input holds some number of lines
Init ==
    /\ FnIdle
    /\ pc = "start"
    /\ key \in BOOLEAN
    /\ stdin \in {[k \in 1..n |-> InputLine(k)] : n \in 0..MaxStdin}
    /\ user_topic = << >>
    /\ self_prompt = << >>
    /\ learning_plan = << >>
    /\ lesson = 0
    /\ question = 0
    /\ question_text = << >>
    /\ answer = << >>
    /\ response = << >>
    /\ trace = << >>
    /\ exit_code = -1

Next ==
    \/ Construct
    \/ AskTopic
    \/ ReadTopic
    \/ Fetch
    \/ PrintPlan
    \/ ShowTitle
    \/ ShowGoals
    \/ ShowLesson
    \/ ShowQuestion
    \/ ReadAnswer
    \/ Grade
    \/ ShowVerdict
    \/ NextLesson
    \/ ShowSummary
    \/ Closing
    \/ Exit

Spec == Init /\ [][Next]_vars

----------------------------------------------------------------------------
(* Properties of a session *)

\* positions of the trace that hold an event of a kind
At(op, what) == {k \in 1..Len(trace) : trace[k].op = op /\ trace[k].what = what}
Attempts(op) == {k \in 1..Len(trace) : trace[k].op = op}
Succeeded(S) == {k \in S : trace[k].ok}

\* x occurs in s as a contiguous piece
IsInfix(x, s) ==
    \E i \in 0..(Len(s) - Len(x)) : SubSeq(s, i + 1, i + Len(x)) = x

\* the steps the session is made of, in the order claimed
StepOf(op, what, i, j) == << op, what, i, j >>

QuestionSteps(i, j) ==
    << StepOf("emit", "question", i, j), StepOf("input", "answer", i, j),
       StepOf("call", "grading", i, j), StepOf("emit", "verdict", i, j) >>

LessonSteps(i) ==
    << StepOf("emit", "lesson", i, 0) >> \o QuestionSteps(i, 1) \o QuestionSteps(i, 2)

ExpectedSteps ==
    << StepOf("input", "topic", 0, 0), StepOf("call", "curriculum", 0, 0),
       StepOf("emit", "title", 0, 0), StepOf("emit", "goals", 0, 0) >>
    \o LessonSteps(1) \o LessonSteps(2) \o LessonSteps(3)
    \o << StepOf("emit", "summary", 0, 0), StepOf("emit", "closing", 0, 0) >>

\* lines standard input held when the process started
StdinAtStart == Len(stdin) + Cardinality(Succeeded(Attempts("input")))

NoCallFailed == \A k \in Attempts("call") : trace[k].ok

C1_Pre == key /\ StdinAtStart = 7 /\ NoCallFailed

\* how far the process has got: every step of main() raises it
Progress ==
    Len(trace) + lesson + (IF pc = "start" THEN 0 ELSE 1) + (IF pc = "exited" THEN 1 ELSE 0)

C1_Safe ==
    C1_Pre =>
        /\ \A k \in Attempts("input") : trace[k].ok
        /\ Cardinality(At("input", "topic")) <= 1
        /\ Cardinality(At("call", "curriculum")) <= 1
        /\ Cardinality(At("input", "answer")) <= 6
        /\ Cardinality(At("call", "grading")) <= 6
        /\ pc = "exited" =>
              /\ exit_code = 0
              /\ Cardinality(At("input", "topic")) = 1
              /\ Cardinality(At("call", "curriculum")) = 1
              /\ Cardinality(At("input", "answer")) = 6
              /\ Cardinality(At("call", "grading")) = 6
              /\ Cardinality(Attempts("call")) = 7
              /\ Cardinality(Attempts("input")) = 7
              /\ stdin = << >>
        /\ Progress <= Len(ExpectedSteps) + 12

\* C1: with the key present, every completion call succeeding and 7 input
\* lines, main() reads one topic line, makes 1 curriculum call, reads 6
\* answers, makes 6 grading calls (7 calls in all), never attempts a read
\* that finds no line, and ends with exit code 0; it ends because every
\* step makes progress and the progress is bounded.
C1_EndToEnd == [](C1_Safe) /\ [][C1_Pre' => Progress' > Progress]_vars

C1_Witness == C1_Pre /\ pc = "exited" /\ exit_code = 0 /\ Cardinality(Attempts("call")) = 7

\* the events that are steps of the session (the topic request, the raw
\* print of the curriculum and the "Goals:" / "Lesson n" status lines are not)
IsStep(ev) ==
    \/ ev.op \in {"input", "call"}
    \/ ev.op = "emit" /\ ev.what # "request"

Steps == SelectSeq(trace, IsStep)

\* C2: the session is strictly sequential: topic read, curriculum call, title,
\* goals, then for each lesson 1..3 the lesson and for each question 1..2 the
\* question, one answer read, one grading call whose prompt contains the
\* displayed question text and that answer, the verdict; then summary and
\* closing message.  No step is repeated or skipped.
C2_Sequential ==
    /\ Len(Steps) <= Len(ExpectedSteps)
    /\ \A k \in 1..Len(Steps) :
          /\ StepOf(Steps[k].op, Steps[k].what, Steps[k].i, Steps[k].j) = ExpectedSteps[k]
          /\ (Steps[k].op = "call" /\ Steps[k].what = "grading") =>
                \E qt \in {SubSeq(Steps[k - 2].text, 1, n) : n \in 0..Len(Steps[k - 2].text)} :
                   /\ Steps[k - 2].text = qt \o << NL, NL >>
                   /\ IsInfix(qt \o << NL, SP >> \o Steps[k - 1].text, Steps[k].text)
    /\ exit_code = 0 => Len(Steps) = Len(ExpectedSteps)

C2_Witness ==
    /\ exit_code = 0
    /\ \E k \in At("emit", "question") : Len(trace[k].text) > 2
    /\ \E k1, k2 \in At("input", "answer") : trace[k1].text # trace[k2].text

\* C3: without the key the process exits with status 1 at client
\* construction: no completion call, no prompt emitted, no line read.
C3_MissingKey ==
    ~key =>
        /\ pc \in {"start", "exited"}
        /\ \A k \in 1..Len(trace) : trace[k].op = "log"
        /\ Len(stdin) = StdinAtStart
        /\ pc = "exited" => exit_code = 1

C3_Witness == ~key /\ pc = "exited" /\ exit_code = 1 /\ stdin # << >>

\* C4: every completion call is attempted once; a failing call is the last
\* thing the process does, and it ends with a non-zero status.
C4_FailStop ==
    /\ \A k \in Attempts("call") :
          ~trace[k].ok => /\ k = Len(trace)
                          /\ pc = "exited"
                          /\ exit_code > 0
    /\ \A k1, k2 \in Attempts("call") :
          (/\ trace[k1].what = trace[k2].what
           /\ trace[k1].i = trace[k2].i
           /\ trace[k1].j = trace[k2].j) => k1 = k2

C4_Witness ==
    \E k \in At("call", "grading") :
        ~trace[k].ok /\ trace[k].i = 2 /\ trace[k].j = 2 /\ pc = "exited"

\* what the display of a section's authored content looks like
Shown(sec) ==
    IF sec.what \in {"title", "goals"} THEN Authored(sec) \o << NL, NL >>
    ELSE IF sec.what = "summary" THEN << NL >> \o paginate_text(Authored(sec)) \o << NL, NL >>
    ELSE paginate_text(Authored(sec)) \o << NL, NL >>

SectionEmits == {k \in Attempts("emit") : trace[k].name # << >>}

\* C5: given a curriculum (with the contract's labels) that lacks the label
\* of one lesson, flow() displays the authored content of the lessons whose
\* labels are present and empty content for the missing one, and runs on.
C5_MissingLesson ==
    \A m \in 1..3 :
        learning_plan = Curriculum("contract", m) =>
            /\ (NoCallFailed /\ \A k \in Attempts("input") : trace[k].ok) => exit_code <= 0
            /\ \A k \in At("emit", "lesson") :
                  trace[k].text = IF trace[k].i = m THEN << NL, NL >>
                                  ELSE Shown(Sec("lesson", trace[k].i, 0))

\* C6: the names flow() asks the extractor for are the labels of the prompt
\* template contract, so for a curriculum with exactly those labels every
\* section displayed is the non-empty authored content.
C6_ContractLabels ==
    /\ \A k \in SectionEmits : trace[k].name \in ContractNames
    /\ learning_plan = Curriculum("contract", 0) =>
          \A k \in SectionEmits :
              trace[k].text = Shown(Sec(trace[k].what, trace[k].i, trace[k].j))

----------------------------------------------------------------------------
(* paginate_text applied to texts of words and whitespace *)

\* most words a text holds
MaxWords == 3

\* word lengths around the width: 39 + 1 + 40 fills a line, 40 + 1 + 40 does
\* not fit, 81 is a word longer than a line
WordLens == {1, 39, 40, 81}
Letters == << "a", "b", "c", "d", "e", "f" >>
Word(k, n) == Rep(Letters[((k - 1) % Len(Letters)) + 1], n)

\* the whitespace between two words, and before and after the text
Gaps == { << SP >>, << NL, TAB >> }
Pads == { [lead |-> << >>, trail |-> << >>], [lead |-> << SP >>, trail |-> << NL >>] }

\* the words of the given lengths with the given gap between them
RECURSIVE WordsText(_, _, _)
WordsText(lens, gap, k) ==
    IF k > Len(lens) THEN << >>
    ELSE Word(k, lens[k])
         \o (IF k < Len(lens) THEN gap ELSE << >>)
         \o WordsText(lens, gap, k + 1)

PaginateInputs ==
    UNION { { pad.lead \o WordsText(lens, gap, 1) \o pad.trail :
                lens \in [1..n -> WordLens], gap \in Gaps, pad \in Pads } :
            n \in 0..MaxWords }

NoDoc == [kind |-> "none", lines |-> << >>, sections |-> << >>]

InitPaginate ==
    /\ FlowIdle
    /\ fn = "paginate"
    /\ fn_text \in PaginateInputs
    /\ fn_label = << >>
    /\ fn_pc = "call"
    /\ fn_out = << >>
    /\ fn_doc = NoDoc

\* fn_out = paginate_text(fn_text)
PaginateCall ==
    /\ fn = "paginate"
    /\ fn_pc = "call"
    /\ fn_out' = paginate_text(fn_text)
    /\ fn_pc' = "done"
    /\ UNCHANGED << fn, fn_text, fn_label, fn_doc, flowvars >>

\* paginate_text is applied to its own result
PaginateAgain ==
    /\ fn = "paginate"
    /\ fn_pc = "done"
    /\ fn_doc = NoDoc
    /\ fn_doc' = [kind |-> "again", lines |-> << fn_text, fn_out >>, sections |-> << >>]
    /\ fn_text' = fn_out
    /\ fn_pc' = "call"
    /\ UNCHANGED << fn, fn_label, fn_out, flowvars >>

NextPaginate == PaginateCall \/ PaginateAgain

SpecPaginate == InitPaginate /\ [][NextPaginate]_vars

PaginateDone == fn = "paginate" /\ fn_pc = "done"

\* the lines of a paginated text
OutLines == splitlines(fn_out)
InWords == Split(fn_text)

HasSpace(s) == \E i \in 1..Len(s) : IsSpace(s[i])

\* C9: every line of paginate_text's output is at most 80 columns long,
\* except a line that is one single word of the input longer than 80 columns.
C9_LineWidth ==
    PaginateDone =>
        \A k \in 1..Len(OutLines) :
            \/ Len(OutLines[k]) <= 80
            \/ /\ ~HasSpace(OutLines[k])
               /\ \E w \in 1..Len(InWords) : InWords[w] = OutLines[k]

C9_Witness ==
    /\ PaginateDone
    /\ \E k \in 1..Len(OutLines) : Len(OutLines[k]) > 80
    /\ \E k \in 1..Len(OutLines) : Len(OutLines[k]) = 80 /\ HasSpace(OutLines[k])

\* C10: paginate_text keeps the words and their order; words on a line are
\* separated by one space, there is no empty line, empty or whitespace-only
\* input gives the empty string, and paginating the output changes nothing.
C10_WordsKept ==
    PaginateDone =>
        /\ Split(fn_out) = InWords
        /\ \A i \in 1..Len(fn_out) :
              IsSpace(fn_out[i]) =>
                 /\ fn_out[i] \in {SP, NL}
                 /\ i > 1 /\ i < Len(fn_out)
                 /\ ~IsSpace(fn_out[i + 1])
        /\ InWords = << >> => fn_out = << >>
        /\ fn_doc.kind = "again" => fn_out = fn_text

C10_Witness ==
    /\ PaginateDone
    /\ fn_doc.kind = "again"
    /\ Len(OutLines) >= 2
    /\ \E k \in 1..Len(OutLines) : HasSpace(OutLines[k])
    /\ fn_doc.lines[1] # fn_out

----------------------------------------------------------------------------
(* extract_section applied to curricula and to texts of arbitrary lines *)

\* most lines an arbitrary text holds
MaxLines == 2

\* Ways a section is written.  `first` follows the colon on the header line,
\* `body` are the lines written under it, `tail` is what follows a line of
\* the header form inside the section; `sp` stands between ] and the colon.
Variant(v, t) ==
    CASE v = 1 -> [sp |-> << >>, first |-> << SP >> \o t, body |-> << >>, tail |-> << >>]
      [] v = 2 -> [sp |-> << >>, first |-> << >>, body |-> << t, << >> >>, tail |-> << >>]
      [] v = 3 -> [sp |-> << SP >>, first |-> << SP >> \o t \o << SP, SP >>,
                   body |-> << << >>, t \o << SP, "x" >>, << >> >>, tail |-> << >>]
      [] v = 4 -> [sp |-> << >>, first |-> t, body |-> << << SP >> \o t >>,
                   tail |-> << << "[", "n", "]", ":", SP >> \o t, << "z" >> >>]
      [] v = 5 -> [sp |-> << >>, first |-> << SP >>, body |-> << >>, tail |-> << >>]

Variants == 1..5

\* a curriculum whose odd sections are written one way and even ones another
DocSection(k, v) ==
    [label |-> LabelOf("contract", Sections[k])] @@ Variant(v, Tag(Sections[k]))

Doc(v1, v2) ==
    [k \in 1..Len(Sections) |-> DocSection(k, IF k % 2 = 1 THEN v1 ELSE v2)]

\* the lines a section is written as
DocSectionLines(sec) ==
    << << "[" >> \o sec.label \o << "]" >> \o sec.sp \o << ":" >> \o sec.first >>
    \o sec.body \o sec.tail

RECURSIVE DocLines(_, _)
DocLines(doc, k) ==
    IF k > Len(doc) THEN << >> ELSE DocSectionLines(doc[k]) \o DocLines(doc, k + 1)

\* the lines of arbitrary texts: header-like lines that differ in case,
\* spacing, length of the name and presence of the colon, and plain lines
LineNames == { << "a" >>, << "A" >>, << "a", "b" >>, << "a", SP, "b" >> }

ArbitraryLines ==
    { << "[" >> \o name \o << "]" >> \o sp \o colon \o << "c" >> :
        name \in LineNames, sp \in { << >>, << SP >> }, colon \in { << >>, << ":" >> } }
    \cup { << >>, << "c" >>, << SP, "[", "a", "]", ":", "c" >>, << "[", "]", ":", "c" >> }

\* the section names asked of an arbitrary text, and of a curriculum
ArbitraryNames == LineNames \cup { << >>, << "a", SP >>, << "z" >> }

CurriculumNames ==
    ContractNames
    \cup { LessonName(1), QuestionName(1, 1), << "t", "i", "t", "l", "e" >>,
           << "T", "I", "T", "L" >>, << "N", "O", "N", "E" >> }

InitExtract ==
    /\ FlowIdle
    /\ fn = "extract"
    /\ fn_pc = "call"
    /\ fn_out = << >>
    /\ \/ \E n \in 0..MaxLines : \E lines \in [1..n -> ArbitraryLines] :
             \E nl \in { << >>, << NL >> } :
             /\ fn_doc = [kind |-> "lines", lines |-> lines, sections |-> << >>]
             /\ fn_text = Join(lines, << NL >>) \o (IF n = 0 THEN << >> ELSE nl)
             /\ fn_label \in ArbitraryNames
       \/ \E v1, v2 \in Variants :
             /\ fn_doc = [kind |-> "curriculum", lines |-> DocLines(Doc(v1, v2), 1),
                          sections |-> Doc(v1, v2)]
             /\ fn_text = Join(DocLines(Doc(v1, v2), 1), << NL >>)
             /\ fn_label \in CurriculumNames

\* fn_out = extract_section(fn_text, fn_label)
ExtractCall ==
    /\ fn = "extract"
    /\ fn_pc = "call"
    /\ fn_out' = extract_section(fn_text, fn_label)
    /\ fn_pc' = "done"
    /\ UNCHANGED << fn, fn_text, fn_label, fn_doc, flowvars >>

NextExtract == ExtractCall

SpecExtract == InitExtract /\ [][NextExtract]_vars

ExtractDone == fn = "extract" /\ fn_pc = "done"

\* the content authored for a section: the text after the header's colon
\* and the lines under it, without the surrounding white space
AuthoredLines(sec) ==
    (IF strip(sec.first) = << >> THEN << >> ELSE << strip(sec.first) >>) \o sec.body

AuthoredContent(sec) == rstrip(Join(AuthoredLines(sec), << NL >>))

\* C7: for a curriculum in which every defined label heads its own section,
\* extract_section returns for each label exactly the content authored for
\* it, from its header line to the next line of the header form or the end
\* of the text, and nothing of another section.
C7_ExactContent ==
    (ExtractDone /\ fn_doc.kind = "curriculum") =>
        \A k \in 1..Len(fn_doc.sections) :
            fn_doc.sections[k].label = fn_label =>
               /\ fn_out = AuthoredContent(fn_doc.sections[k])
               /\ Split(fn_out) =
                     Split(Join(<< fn_doc.sections[k].first >> \o fn_doc.sections[k].body,
                                << NL >>))

C7_Witness ==
    /\ ExtractDone
    /\ fn_doc.kind = "curriculum"
    /\ fn_label = LabelOf("contract", Sec("question", 2, 1))
    /\ Len(splitlines(fn_out)) >= 2
    /\ fn_doc.sections[7].tail # << >>

\* the name heads the line: [name], optional white space, a colon
Heads(name, line) ==
    \E n \in 0..Len(line) :
        LET p == Len(name) + 2
        IN  /\ Len(line) >= p + n + 1
            /\ SubSeq(line, 1, p) = << "[" >> \o name \o << "]" >>
            /\ \A i \in (p + 1)..(p + n) : IsSpace(line[i])
            /\ line[p + n + 1] = ":"

HeadsNoLine ==
    \A k \in 1..Len(fn_doc.lines) : ~Heads(fn_label, fn_doc.lines[k])

\* C8: for a label that heads no line of the text, extract_section returns
\* the empty string (and is defined); a label that differs from a present
\* one in case or spacing, or is a prefix of it, matches nothing.
C8_AbsentLabelEmpty ==
    (ExtractDone /\ HeadsNoLine) => fn_out = << >>

C8_Witness ==
    /\ ExtractDone
    /\ HeadsNoLine
    /\ fn_out = << >>
    /\ fn_label = << "a" >>
    /\ fn_doc.kind = "lines"
    /\ Len(fn_doc.lines) = 2
    /\ fn_doc.lines[1] = << "[", "a", "b", "]", ":", "c" >>
    /\ fn_doc.lines[2] = << "c" >>

=============================================================================
